---- MODULE Spec2Model ----
(***************************************************************************)
(* Model of fire/api/model/tidsserier.py: the ensemble of time series      *)
(* (TidsserieEnsemble), the polynomial regression (PolynomieRegression1D), *)
(* the binning of GNSS data (GNSSTidsserie.binning) and the hypothesis     *)
(* tests (HypoteseTest, Ztest, Ttest).                                     *)
(*                                                                         *)
(* Python floats are modelled as exact rationals <<n, d>> in lowest terms  *)
(* with d > 0, so that equal values are equal tuples; floating-point       *)
(* rounding is outside the model.  Danish letters are transliterated in    *)
(* identifiers: ae, oe, aa.                                                *)
(***************************************************************************)
EXTENDS Integers, Sequences, FiniteSets, TLC

VARIABLES
    \* ---- TidsserieEnsemble and the series it is offered ----
    ensemble,      \* the constructor's arguments (tidsserieklasse, ...)
    tidsserier,    \* the dict self.tidsserier, in insertion order: <<navn, serie>>
    var_samlet,    \* the ensemble's attribute var_samlet, Ingen until assigned
    linreg,        \* for every series object its attribute linreg
    tildelt,       \* history: the series' current regression got a pooled variance
    sidste,        \* the last call and how it ended: [op, ts, udfald]
    \* ---- one call of GNSSTidsserie.binning ----
    pc, x_ind, y_ind, binsize, x, y, vaegt, x_ny, y_ny, vaegt_ny, i,
    \* ---- one PolynomieRegression1D object ----
    reg,           \* the object, Ingen before its construction
    regkald,       \* the last call on it and how it ended: [op, udfald]
    svar,          \* what the last read of the fitted object returned
    \* ---- one HypoteseTest object ----
    test,          \* the object, Ingen before its construction
    aflaest,       \* the property read last and the value it gave
    \* ---- one call of Tidsserie._obs_liste ----
    koordinater,        \* self.koordinater: for every coordinate its observationer
    observationsklasse, \* the argument observationsklasse
    attribut,           \* the argument attribut
    observationer,      \* the local list observationer
    kpos,               \* the position in koordinater of the outer loop
    obs_pc              \* "hviler", "loekke" or "retur"

vars_ens == <<ensemble, tidsserier, var_samlet, linreg, tildelt, sidste>>
vars_bin == <<pc, x_ind, y_ind, binsize, x, y, vaegt, x_ny, y_ny, vaegt_ny, i>>
vars_reg == <<reg, regkald, svar>>
vars_hyp == <<test, aflaest>>
vars_obs == <<koordinater, observationsklasse, attribut, observationer, kpos, obs_pc>>
vars == <<vars_ens, vars_bin, vars_reg, vars_hyp, vars_obs>>

\* An attribute is modelled as a set of at most one value.  Ingen is an
\* attribute without a value: never assigned (reading it raises
\* AttributeError) for beta, residualer, SSR, linreg and the ensemble's
\* var_samlet; None for _var0 and the regression's var_samlet.
Ingen == {}
Har(v) == {v}
Vaerdi(a) == CHOOSE v \in a : TRUE

(***************************************************************************)
(* Exact arithmetic for the float computations of the source.              *)
(***************************************************************************)
Abs(a) == IF a < 0 THEN -a ELSE a

RECURSIVE GCD(_, _)
GCD(a, b) == IF b = 0 THEN a ELSE GCD(b, a % b)

\* The rational n/d (d # 0) in lowest terms with a positive denominator.
Rat(n, d) ==
    LET g == GCD(Abs(n), Abs(d))
        s == IF d < 0 THEN -1 ELSE 1
    IN  <<(s * n) \div g, (s * d) \div g>>

RInt(k) == <<k, 1>>
RAdd(a, b) ==
    \* over the least common denominator, to keep the intermediate products small
    LET g == GCD(a[2], b[2])
    IN  Rat(a[1] * (b[2] \div g) + b[1] * (a[2] \div g), (a[2] \div g) * b[2])
RSub(a, b) == RAdd(a, <<-b[1], b[2]>>)
RMul(a, b) ==
    \* cross-cancel first, to keep the intermediate products small
    LET g1 == GCD(Abs(a[1]), b[2])
        g2 == GCD(Abs(b[1]), a[2])
    IN  Rat((a[1] \div g1) * (b[1] \div g2), (a[2] \div g2) * (b[2] \div g1))
\* a / b for b # 0
RDiv(a, b) == RMul(a, IF b[1] < 0 THEN <<-b[2], -b[1]>> ELSE <<b[2], b[1]>>)
RLeq(a, b) == a[1] * b[2] <= b[1] * a[2]
RLt(a, b) == a[1] * b[2] < b[1] * a[2]
RAbs(a) == <<Abs(a[1]), a[2]>>

RECURSIVE RPow(_, _)
RPow(a, k) == IF k = 0 THEN RInt(1) ELSE RMul(a, RPow(a, k - 1))

\* The list [F(1), ..., F(n)], every element computed once.
RECURSIVE Liste(_, _)
Liste(F(_), n) == IF n = 0 THEN <<>> ELSE Append(Liste(F, n - 1), F(n))

\* F applied to the value of v, v computed once.
Lad(v, F(_)) == CHOOSE r \in {F(z) : z \in {v}} : TRUE

\* sum(...) over a sequence of rationals, accumulated left to right from 0
RECURSIVE RSum(_)
RSum(s) == IF s = <<>> THEN RInt(0)
           ELSE RAdd(RSum(SubSeq(s, 1, Len(s) - 1)), s[Len(s)])

(***************************************************************************)
(* GNSSTidsserie.binning as a function of its arguments.                   *)
(***************************************************************************)
\* A variant: the bin is a day wider
binsize_i_aar_plus_en_dag(bs) == RDiv(RInt(bs + 1), <<1461, 4>>)

\* binsize / 365.25
binsize_i_aar(bs) == RDiv(RInt(bs), <<1461, 4>>)

\* A variant: np.diff(x) < binsize_i_aar somewhere
NaboerStrengtForTaet(xs, B) ==
    \E k \in 1..(Len(xs) - 1) : RLt(RSub(xs[k + 1], xs[k]), B)

\* np.diff(x) <= binsize_i_aar somewhere
NaboerForTaet(xs, B) ==
    \E k \in 1..(Len(xs) - 1) : RLeq(RSub(xs[k + 1], xs[k]), B)

\* np.where(bin_start <= x and x <= bin_slut), over the whole array
Bin(xs, bin_start, B) ==
    {k \in 1..Len(xs) : RLeq(bin_start, xs[k]) /\ RLeq(xs[k], RAdd(bin_start, B))}

SetMax(S) == CHOOSE m \in S : \A k \in S : k <= m

\* sum(v[bin] * w[bin]) and sum(w[bin]), the indices taken in ascending order
RECURSIVE SumProdukt(_, _, _)
SumProdukt(v, w, S) ==
    IF S = {} THEN RInt(0)
    ELSE LET m == SetMax(S)
         IN  RAdd(SumProdukt(v, w, S \ {m}), RMul(v[m], RInt(w[m])))

RECURSIVE SumVaegt(_, _)
SumVaegt(w, S) ==
    IF S = {} THEN 0 ELSE LET m == SetMax(S) IN SumVaegt(w, S \ {m}) + w[m]

\* A variant: the mean of the bin's points without their weights
UvaegtetMiddel(v, w, S) ==
    RDiv(SumProdukt(v, [k \in DOMAIN w |-> 1], S), RInt(Cardinality(S)))

\* sum(v[bin] * vaegt[bin]) / sum(vaegt[bin])
VaegtetMiddel(v, w, S) == RDiv(SumProdukt(v, w, S), RInt(SumVaegt(w, S)))

\* The inner while loop from index k on: the lists x_ny, y_ny, vaegt_ny.
RECURSIVE Gennemloeb(_, _, _, _, _, _)
Gennemloeb(xs, ys, ws, B, k, acc) ==
    IF k > Len(xs) THEN acc
    ELSE LET b == Bin(xs, xs[k], B)
         IN  Gennemloeb(xs, ys, ws, B, SetMax(b) + 1,
                 [xn |-> Append(acc.xn, VaegtetMiddel(xs, ws, b)),
                  yn |-> Append(acc.yn, VaegtetMiddel(ys, ws, b)),
                  wn |-> Append(acc.wn, SumVaegt(ws, b))])

\* The outer while loop.
RECURSIVE BinningLoekke(_, _, _, _)
BinningLoekke(xs, ys, ws, B) ==
    IF ~NaboerForTaet(xs, B) THEN <<xs, ys>>
    ELSE LET r == Gennemloeb(xs, ys, ws, B, 1, [xn |-> <<>>, yn |-> <<>>, wn |-> <<>>])
         IN  BinningLoekke(r.xn, r.yn, r.wn, B)

\* binning(x, y, binsize) for len(x) = len(y)
Binning(xs, ys, bs) ==
    BinningLoekke(xs, ys, Liste(LAMBDA k : 1, Len(xs)), binsize_i_aar(bs))

(***************************************************************************)
(* PolynomieRegression1D.                                                  *)
(***************************************************************************)
\* __init__: the data, the degree, the weights; nothing fitted yet.
PolynomieRegression1D(xs, ys, y_vaegte, grad) ==
    [x |-> xs, y |-> ys, grad |-> grad, y_vaegte |-> y_vaegte,
     var0 |-> Ingen, var_samlet |-> Ingen,
     beta |-> Ingen, residualer |-> Ingen, SSR |-> Ingen]

ddof(r) == r.grad + 1
N(r) == Len(r.x)
dof(r) == N(r) - ddof(r)

\* _W: np.ones(N) * y_vaegte
W(r) == Liste(LAMBDA k : RMul(<<1, 1>>, r.y_vaegte), N(r))

\* The minor of a k x k matrix for row 1 and column c.
Minor(M, k, c) ==
    Liste(LAMBDA a : Liste(LAMBDA b : M[a + 1][IF b < c THEN b ELSE b + 1], k - 1), k - 1)

RECURSIVE Det(_, _)
Det(M, k) ==
    IF k = 0 THEN <<1, 1>>
    ELSE RSum(Liste(LAMBDA c :
            RMul(RMul(RInt(IF c % 2 = 1 THEN 1 ELSE -1), M[1][c]),
                 Det(Minor(M, k, c), k - 1)), k))

\* The result of a rank-deficient fit: lstsq's minimum-norm coefficients,
\* k numbers whose values the model leaves open (written 0/0).
MindsteNormLoesning(k) == Liste(LAMBDA j : <<0, 0>>, k)

\* numpy's P.polyfit(x, y, grad, full=True, w=w): the coefficients, lowest
\* degree first, that minimise sum((w * (y - p(x)))^2), and whether the
\* residual list is empty (SSR.size == 0), which it is when the Vandermonde
\* system has rank below grad + 1.
polyfit(xs, ys, grad, w) ==
    LET k == grad + 1
        Mj(M, v, j) ==
            Liste(LAMBDA a : Liste(LAMBDA b : IF b = j THEN v[a] ELSE M[a][b], k), k)
        Loesning(M, v, D) ==
            IF D = <<0, 1>> \/ Len(xs) <= k
            THEN [beta |-> MindsteNormLoesning(k), SSR_tom |-> TRUE]
            ELSE [beta |-> Liste(LAMBDA j :
                              RDiv(Lad(Mj(M, v, j), LAMBDA A : Det(A, k)), D), k),
                  SSR_tom |-> FALSE]
    IN  Lad(Liste(LAMBDA n : RMul(w[n], w[n]), Len(xs)), LAMBDA w2 :
        Lad(Liste(LAMBDA a : Liste(LAMBDA b :
                RSum(Liste(LAMBDA n : RMul(w2[n], RPow(xs[n], a + b - 2)), Len(xs))),
                k), k), LAMBDA M :
        Lad(Liste(LAMBDA a :
                RSum(Liste(LAMBDA n : RMul(w2[n], RMul(RPow(xs[n], a - 1), ys[n])),
                           Len(xs))), k), LAMBDA v :
        Lad(Det(M, k), LAMBDA D : Loesning(M, v, D)))))

\* P.polyval(xv, beta)
polyval(xv, beta) ==
    RSum(Liste(LAMBDA j : RMul(beta[j], RPow(xv, j - 1)), Len(beta)))

\* beregn_praediktioner(x_praed)
beregn_praediktioner(r, x_praed) ==
    Lad(Vaerdi(r.beta), LAMBDA beta :
        Liste(LAMBDA n : polyval(x_praed[n], beta), Len(x_praed)))

(***************************************************************************)
(* The series offered to the ensemble.  A series object has a class, a     *)
(* navn (a string, modelled as a sequence of characters), the kortnavn of  *)
(* its srid and its koordinater, of which the model keeps the decimal      *)
(* years and one value component.                                          *)
(***************************************************************************)
\* The defaults of the keyword arguments: grad=1, binsize=14, y_vaegte=1.
StandardGrad == 1
StandardBinsize == 14
StandardVaegt == 1

RSeq(s) == Liste(LAMBDA k : <<s[k], 1>>, Len(s))

Serie(klasse, navn, kortnavn, aar, v) ==
    [klasse |-> klasse, navn |-> navn, kortnavn |-> kortnavn,
     decimalaar |-> RSeq(aar), vaerdier |-> RSeq(v)]

Serier ==
    [s1 |-> Serie("GNSSTidsserie", <<"a", "_", "g", "_", "1">>, "R",
                  <<0, 1, 2, 3>>, <<0, 2, 2, 0>>),
     s2 |-> Serie("GNSSTidsserie", <<"b", "_", "g", "_", "1">>, "R",
                  <<0, 1, 2, 3, 4>>, <<0, 1, 3, 1, 0>>),
     \* a second series object with the navn of s1
     s3 |-> Serie("GNSSTidsserie", <<"a", "_", "g", "_", "1">>, "R",
                  <<0, 1, 2>>, <<0, 1, 3>>),
     s4 |-> Serie("HoejdeTidsserie", <<"h", "_", "g", "_", "1">>, "R",
                  <<0, 1, 2>>, <<0, 0, 0>>),
     \* a navn without the three fields
     s5 |-> Serie("GNSSTidsserie", <<"c", "_", "g">>, "R",
                  <<0, 1, 2>>, <<0, 0, 0>>),
     \* another group, another reference frame, too few points
     s6 |-> Serie("GNSSTidsserie", <<"d", "_", "h", "_", "1">>, "R",
                  <<0, 1, 2>>, <<0, 0, 0>>),
     s7 |-> Serie("GNSSTidsserie", <<"e", "_", "g", "_", "1">>, "Q",
                  <<0, 1, 2>>, <<0, 3, 0>>),
     s8 |-> Serie("GNSSTidsserie", <<"f", "_", "g", "_", "1">>, "R",
                  <<0, 1>>, <<0, 0>>)]

SerieId == DOMAIN Serier

\* The series the callers prepare and solve a regression for.
Regresseres == {"s1", "s2", "s3"}

\* The arguments TidsserieEnsemble(...) is constructed with.
Konfigurationer ==
    { [tidsserieklasse |-> k, min_antal_punkter |-> 3,
       tidsseriegruppe |-> <<"g">>, referenceramme |-> "R"] :
      k \in {"GNSSTidsserie", "HoejdeTidsserie", "Tidsserie"} }

\* isinstance(ts, klasse): GNSSTidsserie and HoejdeTidsserie derive from Tidsserie.
isinstance(ts, klasse) == klasse \in {ts.klasse, "Tidsserie"}

\* Tidsserie.__len__
AntalPunkter(ts) == Len(ts.decimalaar)

\* Tidsserie.referenceramme
referenceramme(ts) == ts.kortnavn

\* str.split(sep): the pieces of s between the occurrences of sep.
RECURSIVE SplitFra(_, _, _, _)
SplitFra(s, sep, stykke, dele) ==
    IF s = <<>> THEN Append(dele, stykke)
    ELSE IF Head(s) = sep
         THEN SplitFra(Tail(s), sep, <<>>, Append(dele, stykke))
         ELSE SplitFra(Tail(s), sep, Append(stykke, Head(s)), dele)

Split(s, sep) == SplitFra(s, sep, <<>>, <<>>)

\* ts.tidsseriegruppe: a property of GNSSTidsserie only, which unpacks
\* navn.split("_") into exactly three names (ValueError otherwise); the other
\* classes have no such attribute.
tidsseriegruppe(ts) ==
    IF ts.klasse = "GNSSTidsserie"
    THEN LET dele == Split(ts.navn, "_")
         IN  IF Len(dele) = 3
             THEN [udfald |-> "ok", gruppenavn |-> dele[2]]
             ELSE [udfald |-> "ValueError", gruppenavn |-> <<>>]
    ELSE [udfald |-> "AttributeError", gruppenavn |-> <<>>]

\* _valider_tidsserie: "ok", or the exception it ends with.  The four
\* conditions are joined by "or", evaluated left to right.
valider_tidsserie(ens, ts) ==
    IF ~isinstance(ts, ens.tidsserieklasse) THEN "ValueError"
    ELSE IF AntalPunkter(ts) < ens.min_antal_punkter THEN "ValueError"
    ELSE LET g == tidsseriegruppe(ts)
         IN  IF g.udfald # "ok" THEN g.udfald
             ELSE IF g.gruppenavn # ens.tidsseriegruppe THEN "ValueError"
             ELSE IF referenceramme(ts) # ens.referenceramme THEN "ValueError"
             ELSE "ok"

\* A variant: a list that is appended to instead of a dict
DictUpdateTilfoejer(d, navn, serie) == Append(d, <<navn, serie>>)

\* dict.update({navn: serie}): an existing key keeps its place and gets the
\* new value, a new key is appended.
DictUpdate(d, navn, serie) ==
    IF \E k \in 1..Len(d) : d[k][1] = navn
    THEN [k \in 1..Len(d) |-> IF d[k][1] = navn THEN <<navn, serie>> ELSE d[k]]
    ELSE Append(d, <<navn, serie>>)

\* dict.values()
Values(d) == [k \in 1..Len(d) |-> d[k][2]]

\* What the except clause of tilfoej_tidsserie lets through.
Fanget(fejl) == fejl = "ValueError"

\* A variant: the check lets dof = 0 through
ForFaaPunkterUdenNul(r) == dof(r) < 0

\* The check at the top of solve().
ForFaaPunkter(r) == dof(r) <= 0

\* What solve() computes from the data once the check has passed: the fit,
\* and from it the residuals and the weighted sum of their squares.
Tilpasning(r) ==
    LET Rest(fit) ==
            Lad([r EXCEPT !.beta = Har(fit.beta)], LAMBDA r1 :
            Lad(beregn_praediktioner(r1, r1.x), LAMBDA praed :
            Lad(Liste(LAMBDA n : RSub(r1.y[n], praed[n]), N(r1)), LAMBDA res :
            Lad(W(r1), LAMBDA w :
                [SSR_tom |-> FALSE, beta |-> fit.beta, residualer |-> res,
                 SSR |-> RSum(Liste(LAMBDA n : RMul(w[n], RMul(res[n], res[n])),
                                    N(r1)))]))))
    IN  Lad(polyfit(r.x, r.y, r.grad, W(r)), LAMBDA fit :
            IF fit.SSR_tom
            THEN [SSR_tom |-> TRUE, beta |-> fit.beta, residualer |-> <<>>,
                  SSR |-> <<0, 0>>]
            ELSE Rest(fit))

\* The data forbered_lineaer_regression hands to the regression: binned for a
\* GNSSTidsserie, as given for a HoejdeTidsserie.
RegressionsData(ts, bs) ==
    IF ts.klasse = "GNSSTidsserie"
    THEN Binning(ts.decimalaar, ts.vaerdier, bs)
    ELSE <<ts.decimalaar, ts.vaerdier>>

\* The regression forbered_lineaer_regression constructs.
NyRegression(ts, grad, bs, y_vaegte) ==
    Lad(RegressionsData(ts, bs), LAMBDA d :
        PolynomieRegression1D(d[1], d[2], y_vaegte, grad))

\* The regressions of the series, constructed and fitted once and looked up
\* afterwards (the values are those of NyRegression and Tilpasning).
Regressioner ==
    [s \in Regresseres |->
        NyRegression(Serier[s], StandardGrad, StandardBinsize, RInt(StandardVaegt))]

Tilpasninger ==
    [r \in {Regressioner[s] : s \in Regresseres} |-> Tilpasning(r)]

\* The fields of a regression that __init__ sets and nothing changes.
Grunddata(r) == PolynomieRegression1D(r.x, r.y, r.y_vaegte, r.grad)

Tilpas(r) ==
    Lad(Grunddata(r), LAMBDA g :
        IF g \in DOMAIN Tilpasninger THEN Tilpasninger[g] ELSE Tilpasning(g))

\* A variant: solve() keeps a var_samlet that is already set
solveBevarerSamlet(r) ==
    IF ForFaaPunkter(r)
    THEN [udfald |-> "ValueError_dof", reg |-> r]
    ELSE Lad(Tilpas(r), LAMBDA fit :
         IF fit.SSR_tom
         THEN [udfald |-> "ValueError_rang", reg |-> [r EXCEPT !.beta = Har(fit.beta)]]
         ELSE Lad(RDiv(fit.SSR, RInt(dof(r))), LAMBDA v0 :
              [udfald |-> "ok",
               reg |-> [r EXCEPT !.beta = Har(fit.beta),
                                 !.residualer = Har(fit.residualer),
                                 !.SSR = Har(fit.SSR),
                                 !.var0 = Har(v0),
                                 !.var_samlet = IF r.var_samlet = Ingen
                                                THEN Har(v0) ELSE r.var_samlet]]))

\* solve(): the outcome and the regression afterwards.
solve(r) ==
    IF ForFaaPunkter(r)
    THEN [udfald |-> "ValueError_dof", reg |-> r]
    ELSE Lad(Tilpas(r), LAMBDA fit :
         IF fit.SSR_tom
         THEN [udfald |-> "ValueError_rang", reg |-> [r EXCEPT !.beta = Har(fit.beta)]]
         ELSE Lad(RDiv(fit.SSR, RInt(dof(r))), LAMBDA v0 :
              [udfald |-> "ok",
               reg |-> [r EXCEPT !.beta = Har(fit.beta),
                                 !.residualer = Har(fit.residualer),
                                 !.SSR = Har(fit.SSR),
                                 !.var0 = Har(v0), !.var_samlet = Har(v0)]]))

(***************************************************************************)
(* The operations on the ensemble and its series.                          *)
(***************************************************************************)
\* The call and its outcome, as the caller sees them.
Kald(op, ts, udfald) == [op |-> op, ts |-> ts, udfald |-> udfald]

\* TidsserieEnsemble.tilfoej_tidsserie(ts)
tilfoej_tidsserie(s) ==
    LET u == valider_tidsserie(ensemble, Serier[s])
    IN  /\ tidsserier' = IF u = "ok"
                         THEN DictUpdate(tidsserier, Serier[s].navn, s)
                         ELSE tidsserier
        /\ sidste' = Kald("tilfoej_tidsserie", s,
                          IF u = "ok" THEN "tilfoejet"
                          ELSE IF Fanget(u) THEN "afvist" ELSE u)
        /\ UNCHANGED <<ensemble, var_samlet, linreg, tildelt>>

\* The regression object forbered_lineaer_regression assigns to ts.linreg.
Forberedt(s, grad, bs, y_vaegte) ==
    IF s \in Regresseres /\ grad = StandardGrad /\ bs = StandardBinsize
       /\ y_vaegte = RInt(StandardVaegt)
    THEN Regressioner[s]
    ELSE NyRegression(Serier[s], grad, bs, y_vaegte)

\* ts.forbered_lineaer_regression(ts.decimalaar, <a value component>, **kwargs)
forbered_lineaer_regression(s, grad, bs, y_vaegte) ==
    /\ linreg' = [linreg EXCEPT ![s] = Har(Forberedt(s, grad, bs, y_vaegte))]
    /\ tildelt' = [tildelt EXCEPT ![s] = FALSE]
    /\ sidste' = Kald("forbered_lineaer_regression", s, "ok")
    /\ UNCHANGED <<ensemble, tidsserier, var_samlet>>

\* ts.beregn_lineaer_regression(): self.linreg.solve()
beregn_lineaer_regression(s) ==
    /\ IF linreg[s] = Ingen
       THEN /\ sidste' = Kald("beregn_lineaer_regression", s, "AttributeError")
            /\ UNCHANGED linreg
       ELSE \E r \in {solve(Vaerdi(linreg[s]))} :
                /\ linreg' = [linreg EXCEPT ![s] = Har(r.reg)]
                /\ sidste' = Kald("beregn_lineaer_regression", s, r.udfald)
    /\ UNCHANGED <<ensemble, tidsserier, var_samlet, tildelt>>

\* Whether reading ts.linreg.SSR succeeds.
HarSSR(s) == linreg[s] # Ingen /\ Vaerdi(linreg[s]).SSR # Ingen

\* The two sums beregn_samlet_varians accumulates over dict.values().
RECURSIVE SSR_sum(_)
SSR_sum(v) ==
    IF v = <<>> THEN <<0, 1>>
    ELSE RAdd(SSR_sum(SubSeq(v, 1, Len(v) - 1)),
              Vaerdi(Vaerdi(linreg[v[Len(v)]]).SSR))

RECURSIVE dof_sum(_)
dof_sum(v) ==
    IF v = <<>> THEN 0
    ELSE dof_sum(SubSeq(v, 1, Len(v) - 1)) + dof(Vaerdi(linreg[v[Len(v)]]))

\* A variant: the plain mean of the SSR over the series
SamletVariansGennemsnit(v) == RDiv(SSR_sum(v), RInt(Len(v)))

\* SSR_sum / dof_sum
SamletVarians(v) == RDiv(SSR_sum(v), RInt(dof_sum(v)))

\* A variant: the last loop skips the first series
OpdateresUdenFoerste(v) == {v[k] : k \in 2..Len(v)}

\* The series whose regression the last loop assigns to.
Opdateres(v) == {v[k] : k \in 1..Len(v)}

\* A variant: the check for an empty ensemble is missing
IngenTidsserierUdenTjek == FALSE

\* "if not self.tidsserier"
IngenTidsserier == tidsserier = <<>>

\* TidsserieEnsemble.beregn_samlet_varians()
beregn_samlet_varians ==
    LET v == Values(tidsserier)
        fejl == IF IngenTidsserier THEN "ValueError"
                ELSE IF \E k \in 1..Len(v) : ~HarSSR(v[k]) THEN "AttributeError"
                ELSE IF dof_sum(v) = 0 THEN "ZeroDivisionError"
                ELSE "ok"
    IN  IF fejl # "ok"
        THEN /\ sidste' = Kald("beregn_samlet_varians", "-", fejl)
             /\ UNCHANGED <<ensemble, tidsserier, var_samlet, linreg, tildelt>>
        ELSE LET ny == SamletVarians(v)
             IN  /\ var_samlet' = Har(ny)
                 /\ linreg' = [s \in SerieId |->
                                 IF s \in Opdateres(v)
                                 THEN Har([Vaerdi(linreg[s]) EXCEPT !.var_samlet = Har(ny)])
                                 ELSE linreg[s]]
                 /\ tildelt' = [s \in SerieId |-> tildelt[s] \/ s \in Opdateres(v)]
                 /\ sidste' = Kald("beregn_samlet_varians", "-", "ok")
                 /\ UNCHANGED <<ensemble, tidsserier>>

\* The variables of the other specifications, at rest.
BinHviler ==
    /\ pc = "hviler" /\ x_ind = <<>> /\ y_ind = <<>> /\ binsize = 0
    /\ x = <<>> /\ y = <<>> /\ vaegt = <<>>
    /\ x_ny = <<>> /\ y_ny = <<>> /\ vaegt_ny = <<>> /\ i = 0

RegHviler == reg = Ingen /\ regkald = [op |-> "-", udfald |-> "-"] /\ svar = Ingen

HypHviler == test = Ingen /\ aflaest = Ingen

ObsHviler ==
    /\ koordinater = <<>>
    /\ observationsklasse = "-"
    /\ attribut = "-"
    /\ observationer = <<>>
    /\ kpos = 0
    /\ obs_pc = "hviler"

Init ==
    /\ ensemble \in Konfigurationer
    /\ tidsserier = <<>>
    /\ var_samlet = Ingen
    /\ linreg = [s \in SerieId |-> Ingen]
    /\ tildelt = [s \in SerieId |-> FALSE]
    /\ sidste = Kald("init", "-", "ok")
    /\ BinHviler
    /\ RegHviler
    /\ HypHviler
    /\ ObsHviler

Next ==
    \/ \E s \in SerieId : tilfoej_tidsserie(s) /\ UNCHANGED <<vars_bin, vars_reg, vars_hyp, vars_obs>>
    \/ \E s \in Regresseres :
          forbered_lineaer_regression(s, StandardGrad, StandardBinsize, RInt(StandardVaegt))
          /\ UNCHANGED <<vars_bin, vars_reg, vars_hyp, vars_obs>>
    \/ \E s \in Regresseres : beregn_lineaer_regression(s) /\ UNCHANGED <<vars_bin, vars_reg, vars_hyp, vars_obs>>
    \/ beregn_samlet_varians /\ UNCHANGED <<vars_bin, vars_reg, vars_hyp, vars_obs>>

Spec == Init /\ [][Next]_vars

(***************************************************************************)
(* One call of GNSSTidsserie.binning, statement by statement.  The caller  *)
(* passes decimal years in ascending order, here whole days after an epoch *)
(* (a day is 1/365.25 year), values, and a bin size in days.               *)
(***************************************************************************)
MaxLen == 3
MaxDag == 5
MaxBinsize == 3

\* The decimal year of day d, counted from the epoch.
Aar(d) == Rat(4 * d, 1461)

\* The ascending lists of n days.
Stigende(n) ==
    {Liste(LAMBDA k : f[k], n) :
        f \in {g \in [1..n -> 0..MaxDag] : \A k \in 1..(n - 1) : g[k] <= g[k + 1]}}

\* The lists of values handed over with n days: n values, or one too many.
Yvaerdier(n) ==
    {Liste(LAMBDA k : f[k], n) : f \in [1..n -> {0, 1}]}
        \cup {Liste(LAMBDA k : 0, n + 1)}

Binsizes == {-1} \cup 0..MaxBinsize

\* np.array(v): a new array with the elements of v
np_array(v) == Liste(LAMBDA k : v[k], Len(v))

\* np.ones(x.shape)
np_ones(v) == Liste(LAMBDA k : 1, Len(v))

EnsHviler ==
    /\ ensemble = Ingen /\ tidsserier = <<>> /\ var_samlet = Ingen
    /\ linreg = [s \in SerieId |-> Ingen]
    /\ tildelt = [s \in SerieId |-> FALSE]
    /\ sidste = Kald("init", "-", "ok")

\* binning(x, y, binsize) is called: the length check and the set-up.
binning_kald(xs, ys, bs) ==
    /\ pc = "hviler"
    /\ x_ind' = xs /\ y_ind' = ys /\ binsize' = bs
    /\ IF Len(xs) # Len(ys)
       THEN /\ pc' = "ValueError"
            /\ UNCHANGED <<x, y, vaegt>>
       ELSE /\ x' = np_array(xs) /\ y' = np_array(ys) /\ vaegt' = np_ones(xs)
            /\ pc' = "ydre"
    /\ UNCHANGED <<x_ny, y_ny, vaegt_ny, i>>

\* "while np.any(xdiff <= binsize_i_aar)": into the loop body, or return x, y.
ydre_loekke ==
    /\ pc = "ydre"
    /\ IF NaboerForTaet(x, binsize_i_aar(binsize))
       THEN /\ x_ny' = <<>> /\ y_ny' = <<>> /\ vaegt_ny' = <<>> /\ i' = 0
            /\ pc' = "indre"
       ELSE /\ pc' = "retur"
            /\ UNCHANGED <<x_ny, y_ny, vaegt_ny, i>>
    /\ UNCHANGED <<x_ind, y_ind, binsize, x, y, vaegt>>

\* One pass of "while i < len(x)": the bin that starts at x[i] becomes one
\* point.  i counts from 0 as in the source, the lists from 1.
indre_loekke ==
    /\ pc = "indre"
    /\ i < Len(x)
    /\ \E b \in {Bin(x, x[i + 1], binsize_i_aar(binsize))} :
          /\ x_ny' = Append(x_ny, VaegtetMiddel(x, vaegt, b))
          /\ y_ny' = Append(y_ny, VaegtetMiddel(y, vaegt, b))
          /\ vaegt_ny' = Append(vaegt_ny, SumVaegt(vaegt, b))
          /\ i' = (SetMax(b) - 1) + 1
    /\ UNCHANGED <<pc, x_ind, y_ind, binsize, x, y, vaegt>>

\* The inner loop is over: x, y, vaegt = x_ny, y_ny, vaegt_ny.
indre_slut ==
    /\ pc = "indre"
    /\ i >= Len(x)
    /\ x' = x_ny /\ y' = y_ny /\ vaegt' = vaegt_ny
    /\ pc' = "ydre"
    /\ UNCHANGED <<x_ind, y_ind, binsize, x_ny, y_ny, vaegt_ny, i>>

InitBinning == EnsHviler /\ BinHviler /\ RegHviler /\ HypHviler /\ ObsHviler

NextBinning ==
    \/ /\ pc = "hviler"
       /\ \E n \in 0..MaxLen : \E xs \in Stigende(n) : \E ys \in Yvaerdier(n) :
             \E bs \in Binsizes :
                binning_kald(Liste(LAMBDA k : Aar(xs[k]), Len(xs)), RSeq(ys), bs)
       /\ UNCHANGED <<vars_ens, vars_reg, vars_hyp, vars_obs>>
    \/ ydre_loekke /\ UNCHANGED <<vars_ens, vars_reg, vars_hyp, vars_obs>>
    \/ indre_loekke /\ UNCHANGED <<vars_ens, vars_reg, vars_hyp, vars_obs>>
    \/ indre_slut /\ UNCHANGED <<vars_ens, vars_reg, vars_hyp, vars_obs>>

SpecBinning == InitBinning /\ [][NextBinning]_vars

(***************************************************************************)
(* One PolynomieRegression1D object, constructed by its caller from data   *)
(* of equal length and then solved.                                        *)
(***************************************************************************)
MaxN == 3
MaxX == 2
MaxGrad == 1

\* The x of a regression: n numbers in ascending order, repetitions included.
Xlister(n) ==
    {Liste(LAMBDA k : f[k], n) :
        f \in {g \in [1..n -> 0..MaxX] : \A k \in 1..(n - 1) : g[k] <= g[k + 1]}}

Ylister(n) == {Liste(LAMBDA k : f[k], n) : f \in [1..n -> {0, 1}]}

\* The scalar weights the callers pass for y_vaegte.
Vaegte == {1, 2}

\* PolynomieRegression1D(x, y, y_vaegte, grad)
ny_regression(xs, ys, y_vaegte, grad) ==
    /\ reg = Ingen
    /\ reg' = Har(PolynomieRegression1D(xs, ys, y_vaegte, grad))
    /\ regkald' = [op |-> "__init__", udfald |-> "ok"]
    /\ UNCHANGED svar

\* reg.solve()
reg_solve ==
    /\ reg # Ingen
    /\ \E r \in {solve(Vaerdi(reg))} :
          /\ reg' = Har(r.reg)
          /\ regkald' = [op |-> "solve", udfald |-> r.udfald]
          /\ UNCHANGED svar

InitRegression == EnsHviler /\ BinHviler /\ RegHviler /\ HypHviler /\ ObsHviler

NextRegression ==
    \/ /\ reg = Ingen
       /\ \E n \in 0..MaxN : \E xs \in Xlister(n) : \E ys \in Ylister(n) :
             \E w \in Vaegte : \E grad \in 0..MaxGrad :
                ny_regression(RSeq(xs), RSeq(ys), RInt(w), grad)
       /\ UNCHANGED <<vars_ens, vars_bin, vars_hyp, vars_obs>>
    \/ reg_solve /\ UNCHANGED <<vars_ens, vars_bin, vars_hyp, vars_obs>>

SpecRegression == InitRegression /\ [][NextRegression]_vars

(***************************************************************************)
(* One HypoteseTest object (HypoteseTest, Ztest or Ttest) and the reads of *)
(* its two properties.                                                     *)
(***************************************************************************)
MaxH0 == 4
MaxStd == 3
MaxDof == 3

\* The significance levels of the callers: 5 % (the default) and 10 %.
Alphaer == {<<1, 20>>, <<1, 10>>}

\* scipy's norm.ppf(q), to two decimals, for q = 0.975 and q = 0.95
beregn_fraktil_for_normalfordeling(q) ==
    IF q = <<39, 40>> THEN <<49, 25>> ELSE <<41, 25>>

\* scipy's t.ppf(q, dof), to two decimals, for q = 0.975 and q = 0.95 and
\* dof = 1, ..., 5; nan (written 0/0) when dof is not positive
beregn_fraktil_for_t_fordeling(q, frihedsgrader) ==
    IF frihedsgrader <= 0 THEN <<0, 0>>
    ELSE IF q = <<39, 40>>
    THEN <<(<<1271, 100>>), (<<43, 10>>), (<<159, 50>>), (<<139, 50>>),
           (<<257, 100>>)>>[frihedsgrader]
    ELSE <<(<<631, 100>>), (<<73, 25>>), (<<47, 20>>), (<<213, 100>>),
           (<<101, 50>>)>>[frihedsgrader]

\* HypoteseTest.__init__
HypoteseTest(klasse, std_est, kritiskvaerdi, H0, alpha) ==
    [klasse |-> klasse, H0 |-> H0, alpha |-> alpha, std_est |-> std_est,
     kritiskvaerdi |-> kritiskvaerdi, dof |-> Ingen]

\* Ztest.__init__
Ztest(std_est, H0, alpha) ==
    HypoteseTest("Ztest", std_est,
        beregn_fraktil_for_normalfordeling(
            RSub(<<1, 1>>, RDiv(alpha, <<2, 1>>))), H0, alpha)

\* Ttest.__init__
Ttest(std_est, frihedsgrader, H0, alpha) ==
    [HypoteseTest("Ttest", std_est,
        beregn_fraktil_for_t_fordeling(
            RSub(<<1, 1>>, RDiv(alpha, <<2, 1>>)), frihedsgrader), H0, alpha)
     EXCEPT !.dof = Har(frihedsgrader)]

\* The property score: abs(self.H0 / self.std_est)
score(t) == RAbs(RDiv(t.H0, t.std_est))

\* A variant: the comparison is not strict
H0accepteretIkkeStreng(t) == RLeq(score(t), t.kritiskvaerdi)

\* The property H0accepteret: bool(self.score < self.kritiskvaerdi)
H0accepteret(t) == RLt(score(t), t.kritiskvaerdi)

\* The caller constructs a test.
ny_test(t) ==
    /\ test = Ingen
    /\ test' = Har(t)
    /\ UNCHANGED aflaest

\* The caller reads test.score.
laes_score ==
    /\ test # Ingen
    /\ aflaest' = Har([egenskab |-> "score", vaerdi |-> score(Vaerdi(test))])
    /\ UNCHANGED test

\* The caller reads test.H0accepteret.
laes_H0accepteret ==
    /\ test # Ingen
    /\ aflaest' = Har([egenskab |-> "H0accepteret",
                       vaerdi |-> H0accepteret(Vaerdi(test))])
    /\ UNCHANGED test

\* The arguments of the callers: H0 and std_est (not 0) are whole numbers.
H0er == {RInt(h) : h \in (0 - MaxH0)..MaxH0}
Std_ester == {RInt(e) : e \in ((0 - MaxStd)..MaxStd) \ {0}}
Kritiskevaerdier == {<<1, 1>>, <<3, 2>>, <<2, 1>>}

InitHypotese == EnsHviler /\ BinHviler /\ RegHviler /\ HypHviler /\ ObsHviler

NextHypotese ==
    \/ /\ test = Ingen
       /\ \E e \in Std_ester : \E k \in Kritiskevaerdier : \E h \in H0er :
             \E a \in Alphaer : ny_test(HypoteseTest("HypoteseTest", e, k, h, a))
       /\ UNCHANGED <<vars_ens, vars_bin, vars_reg, vars_obs>>
    \/ /\ test = Ingen
       /\ \E e \in Std_ester : \E h \in H0er : \E a \in Alphaer :
             ny_test(Ztest(e, h, a))
       /\ UNCHANGED <<vars_ens, vars_bin, vars_reg, vars_obs>>
    \/ /\ test = Ingen
       /\ \E e \in Std_ester : \E d \in 1..MaxDof : \E h \in H0er :
             \E a \in Alphaer : ny_test(Ttest(e, d, h, a))
       /\ UNCHANGED <<vars_ens, vars_bin, vars_reg, vars_obs>>
    \/ laes_score /\ UNCHANGED <<vars_ens, vars_bin, vars_reg, vars_obs>>
    \/ laes_H0accepteret /\ UNCHANGED <<vars_ens, vars_bin, vars_reg, vars_obs>>

SpecHypotese == InitHypotese /\ [][NextHypotese]_vars

(***************************************************************************)
(* The reads of a fitted PolynomieRegression1D: KovariansMatrix, VarBeta,  *)
(* beregn_konfidensinterval, beregn_konfidensbaand and                     *)
(* beregn_hypotesetest_haeldning.  A square root is kept unevaluated, as   *)
(* the number it is taken of.                                              *)
(***************************************************************************)
\* The values callers pass for er_samlet: the two booleans, and the integers
\* 1 and 0, which are truthy and falsy but neither "is True" nor "is False".
ErSamletVaerdier == {"True", "False", "1", "0"}

\* "if er_samlet:"
Sand(er_samlet) == er_samlet \in {"True", "1"}

\* np.sqrt(v)
Kvadratrod(v) == [sqrt |-> v]

\* The minor of a k x k matrix for row r and column c.
MinorRC(M, k, r, c) ==
    Liste(LAMBDA a : Liste(LAMBDA b :
        M[IF a < r THEN a ELSE a + 1][IF b < c THEN b ELSE b + 1], k - 1), k - 1)

\* self._A.T @ np.diag(self._W) @ self._A
ATWA(r) ==
    Lad(W(r), LAMBDA w :
        Liste(LAMBDA a : Liste(LAMBDA b :
            RSum(Liste(LAMBDA n : RMul(w[n], RPow(r.x[n], a + b - 2)), N(r))),
            ddof(r)), ddof(r)))

\* self._invATA: np.linalg.inv raises LinAlgError for a singular matrix
invATA(r) ==
    Lad(ATWA(r), LAMBDA M :
    Lad(Det(M, ddof(r)), LAMBDA D :
        IF D = <<0, 1>> THEN [udfald |-> "LinAlgError", vaerdi |-> <<>>]
        ELSE [udfald |-> "ok",
              vaerdi |-> Liste(LAMBDA a : Liste(LAMBDA b :
                  RDiv(RMul(RInt(IF (a + b) % 2 = 0 THEN 1 ELSE -1),
                            Det(MinorRC(M, ddof(r), b, a), ddof(r) - 1)), D),
                  ddof(r)), ddof(r))]))

\* A variant: the covariance is always scaled by the regression's own var0
VariansAltidVar0(r, er_samlet) == r.var0

\* The variance KovariansMatrix selects: "is False" gives var0, "is True"
\* gives var_samlet.
Varians(r, er_samlet) == IF er_samlet = "False" THEN r.var0 ELSE r.var_samlet

\* PolynomieRegression1D.KovariansMatrix(er_samlet): var * self._invATA.
\* For a value that is neither True nor False the name var is unbound.
KovariansMatrix(r, er_samlet) ==
    IF er_samlet \notin {"True", "False"}
    THEN [udfald |-> "UnboundLocalError", vaerdi |-> <<>>]
    ELSE Lad(invATA(r), LAMBDA inv :
         Lad(Varians(r, er_samlet), LAMBDA var :
            IF inv.udfald # "ok" THEN inv
            ELSE IF var = Ingen THEN [udfald |-> "TypeError", vaerdi |-> <<>>]
            ELSE [udfald |-> "ok",
                  vaerdi |-> Liste(LAMBDA a : Liste(LAMBDA b :
                      RMul(Vaerdi(var), inv.vaerdi[a][b]), ddof(r)), ddof(r))]))

\* PolynomieRegression1D.VarBeta(er_samlet): np.diag(KovariansMatrix)
VarBeta(r, er_samlet) ==
    Lad(KovariansMatrix(r, er_samlet), LAMBDA K :
        IF K.udfald # "ok" THEN K
        ELSE [udfald |-> "ok", vaerdi |-> Liste(LAMBDA j : K.vaerdi[j][j], ddof(r))])

\* 1 - alpha / 2
Niveau(alpha) == RSub(<<1, 1>>, RDiv(alpha, <<2, 1>>))

\* PolynomieRegression1D.beregn_konfidensinterval(alpha, er_samlet):
\* beta -/+ fraktil * sqrt(VarBeta), given as beta, fraktil and the numbers
\* under the square root.
beregn_konfidensinterval(r, alpha, er_samlet) ==
    Lad(IF Sand(er_samlet)
        THEN beregn_fraktil_for_normalfordeling(Niveau(alpha))
        ELSE beregn_fraktil_for_t_fordeling(Niveau(alpha), dof(r)), LAMBDA fraktil :
    Lad(VarBeta(r, er_samlet), LAMBDA V :
        IF V.udfald # "ok" THEN V
        ELSE IF r.beta = Ingen THEN [udfald |-> "AttributeError", vaerdi |-> <<>>]
        ELSE [udfald |-> "ok",
              vaerdi |-> [midte |-> Vaerdi(r.beta), fraktil |-> fraktil,
                          delta |-> Liste(LAMBDA j : Kvadratrod(V.vaerdi[j]),
                                          ddof(r))]]))

\* np.diag(A_praed @ self._invATA @ A_praed.T) for A_praed = P.polyvander(x_praed, grad)
Praediktionsvaegt(r, inv, x_praed) ==
    Liste(LAMBDA p :
        RSum(Liste(LAMBDA a :
            RSum(Liste(LAMBDA b :
                RMul(RMul(RPow(x_praed[p], a - 1), inv[a][b]),
                     RPow(x_praed[p], b - 1)), ddof(r))), ddof(r))),
        Len(x_praed))

\* PolynomieRegression1D.beregn_konfidensbaand(x_praed, alpha=alpha,
\* er_samlet=er_samlet) with y_praed left at None: the predictions -/+
\* fraktil * sqrt(var * diag(...)).
beregn_konfidensbaand(r, x_praed, alpha, er_samlet) ==
    Lad(IF Sand(er_samlet) THEN r.var_samlet ELSE r.var0, LAMBDA var :
    Lad(IF Sand(er_samlet)
        THEN beregn_fraktil_for_normalfordeling(Niveau(alpha))
        ELSE beregn_fraktil_for_t_fordeling(Niveau(alpha), dof(r)), LAMBDA fraktil :
        IF r.beta = Ingen THEN [udfald |-> "AttributeError", vaerdi |-> <<>>]
        ELSE Lad(invATA(r), LAMBDA inv :
            IF inv.udfald # "ok" THEN inv
            ELSE IF var = Ingen THEN [udfald |-> "TypeError", vaerdi |-> <<>>]
            ELSE Lad(Praediktionsvaegt(r, inv.vaerdi, x_praed), LAMBDA d :
                 [udfald |-> "ok",
                  vaerdi |-> [midte |-> beregn_praediktioner(r, x_praed),
                              fraktil |-> fraktil,
                              delta |-> Liste(LAMBDA p :
                                  Kvadratrod(RMul(Vaerdi(var), d[p])),
                                  Len(x_praed))]]))))

\* PolynomieRegression1D.beregn_hypotesetest_haeldning(reference_haeldning,
\* alpha, er_samlet)
beregn_hypotesetest_haeldning(r, reference_haeldning, alpha, er_samlet) ==
    Lad(VarBeta(r, er_samlet), LAMBDA V :
        IF V.udfald # "ok" THEN V
        ELSE IF ddof(r) < 2 THEN [udfald |-> "IndexError", vaerdi |-> <<>>]
        ELSE IF r.beta = Ingen THEN [udfald |-> "AttributeError", vaerdi |-> <<>>]
        ELSE Lad(Kvadratrod(V.vaerdi[2]), LAMBDA std_est :
             Lad(RSub(reference_haeldning, Vaerdi(r.beta)[2]), LAMBDA H0 :
                [udfald |-> "ok",
                 vaerdi |-> IF Sand(er_samlet)
                            THEN Ztest(std_est, H0, alpha)
                            ELSE Ttest(std_est, dof(r), H0, alpha)])))

\* The regressions read in this specification: x, y, y_vaegte and grad.
Maalinger ==
    { [x |-> <<0, 1, 2, 3>>, y |-> <<0, 2, 2, 0>>, y_vaegte |-> 1, grad |-> 1],
      [x |-> <<0, 1, 2>>, y |-> <<0, 1, 3>>, y_vaegte |-> 2, grad |-> 1],
      [x |-> <<0, 1, 3>>, y |-> <<1, 0, 2>>, y_vaegte |-> 1, grad |-> 0],
      [x |-> <<1, 1, 1>>, y |-> <<0, 1, 2>>, y_vaegte |-> 1, grad |-> 1],
      [x |-> <<0, 2>>, y |-> <<1, 3>>, y_vaegte |-> 1, grad |-> 1] }

\* The pooled variances an ensemble assigns.
SamledeVarianser == {<<1, 2>>, <<5, 1>>}

\* The points x_praed of a confidence band and the reference slopes.
Praediktionspunkter == {<<(<<1, 1>>)>>, <<(<<0, 1>>), (<<4, 1>>)>>}
Referencehaeldninger == {<<0, 1>>, <<1, 1>>}

\* "ts.linreg.var_samlet = self.var_samlet" of an ensemble's
\* beregn_samlet_varians, seen from the regression it assigns to.
tildel_var_samlet(v) ==
    /\ reg # Ingen
    /\ Vaerdi(reg).SSR # Ingen
    /\ reg' = Har([Vaerdi(reg) EXCEPT !.var_samlet = Har(v)])
    /\ regkald' = [op |-> "var_samlet", udfald |-> "ok"]
    /\ UNCHANGED svar

\* reg.beregn_konfidensinterval(alpha, er_samlet)
kald_konfidensinterval(alpha, er_samlet) ==
    /\ reg # Ingen
    /\ \E r \in {beregn_konfidensinterval(Vaerdi(reg), alpha, er_samlet)} :
          /\ regkald' = [op |-> "beregn_konfidensinterval", udfald |-> r.udfald,
                         alpha |-> alpha, er_samlet |-> er_samlet]
          /\ svar' = Har(r.vaerdi)
    /\ UNCHANGED reg

\* reg.beregn_konfidensbaand(x_praed, alpha=alpha, er_samlet=er_samlet)
kald_konfidensbaand(x_praed, alpha, er_samlet) ==
    /\ reg # Ingen
    /\ \E r \in {beregn_konfidensbaand(Vaerdi(reg), x_praed, alpha, er_samlet)} :
          /\ regkald' = [op |-> "beregn_konfidensbaand", udfald |-> r.udfald,
                         alpha |-> alpha, er_samlet |-> er_samlet,
                         x_praed |-> x_praed]
          /\ svar' = Har(r.vaerdi)
    /\ UNCHANGED reg

\* reg.beregn_hypotesetest_haeldning(reference_haeldning, alpha, er_samlet)
kald_hypotesetest_haeldning(reference_haeldning, alpha, er_samlet) ==
    /\ reg # Ingen
    /\ \E r \in {beregn_hypotesetest_haeldning(Vaerdi(reg), reference_haeldning,
                                               alpha, er_samlet)} :
          /\ regkald' = [op |-> "beregn_hypotesetest_haeldning",
                         udfald |-> r.udfald, alpha |-> alpha,
                         er_samlet |-> er_samlet]
          /\ svar' = Har(r.vaerdi)
    /\ UNCHANGED reg

InitAflaesning == EnsHviler /\ BinHviler /\ RegHviler /\ HypHviler /\ ObsHviler

NextAflaesning ==
    \/ /\ reg = Ingen
       /\ \E m \in Maalinger :
             ny_regression(RSeq(m.x), RSeq(m.y), RInt(m.y_vaegte), m.grad)
       /\ UNCHANGED <<vars_ens, vars_bin, vars_hyp, vars_obs>>
    \/ reg_solve /\ UNCHANGED <<vars_ens, vars_bin, vars_hyp, vars_obs>>
    \/ /\ \E v \in SamledeVarianser : tildel_var_samlet(v)
       /\ UNCHANGED <<vars_ens, vars_bin, vars_hyp, vars_obs>>
    \/ /\ reg # Ingen
       /\ \E alpha \in Alphaer : \E e \in ErSamletVaerdier :
             kald_konfidensinterval(alpha, e)
       /\ UNCHANGED <<vars_ens, vars_bin, vars_hyp, vars_obs>>
    \/ /\ reg # Ingen
       /\ \E xp \in Praediktionspunkter : \E alpha \in Alphaer :
             \E e \in ErSamletVaerdier : kald_konfidensbaand(xp, alpha, e)
       /\ UNCHANGED <<vars_ens, vars_bin, vars_hyp, vars_obs>>
    \/ /\ reg # Ingen
       /\ \E h \in Referencehaeldninger : \E alpha \in Alphaer :
             \E e \in ErSamletVaerdier : kald_hypotesetest_haeldning(h, alpha, e)
       /\ UNCHANGED <<vars_ens, vars_bin, vars_hyp, vars_obs>>

SpecAflaesning == InitAflaesning /\ [][NextAflaesning]_vars

(***************************************************************************)
(* One call of Tidsserie._obs_liste(observationsklasse, attribut), the     *)
(* function behind obslaengde, koordinatkovarians_* and                    *)
(* residualkovarians_*.                                                    *)
(***************************************************************************)
MaxKoordinater == 2

\* The observations attached to coordinates: an ObservationsLaengde has the
\* attribute varighed, a KoordinatKovarians and a ResidualKovarians have the
\* components xx and yy (of the six).
ObservationsLaengde(varighed) ==
    [klasse |-> "ObservationsLaengde", varighed |-> varighed]
KoordinatKovarians(xx, yy) == [klasse |-> "KoordinatKovarians", xx |-> xx, yy |-> yy]
ResidualKovarians(xx, yy) == [klasse |-> "ResidualKovarians", xx |-> xx, yy |-> yy]

\* The lists k.observationer a coordinate comes with: no observation, one
\* with the value 0, another kind first, two of the same kind, and both
\* covariances in either order.
Observationslister ==
    { <<>>,
      <<ObservationsLaengde(0)>>,
      <<KoordinatKovarians(3, 0), ObservationsLaengde(24)>>,
      <<ObservationsLaengde(12), ObservationsLaengde(0)>>,
      <<KoordinatKovarians(0, 1), ResidualKovarians(2, 0)>>,
      <<ResidualKovarians(0, 4), KoordinatKovarians(5, 0), KoordinatKovarians(0, 6)>> }

\* The calls the properties make: (observationsklasse, attribut)
Opslag ==
    { <<"ObservationsLaengde", "varighed">>,
      <<"KoordinatKovarians", "xx">>, <<"KoordinatKovarians", "yy">>,
      <<"ResidualKovarians", "xx">>, <<"ResidualKovarians", "yy">> }

RECURSIVE Koordinatlister(_)
Koordinatlister(n) ==
    IF n = 0 THEN {<<>>}
    ELSE {Append(v, o) : v \in Koordinatlister(n - 1), o \in Observationslister}

\* isinstance(obs, observationsklasse): the three classes derive from
\* Observation and not from each other.
isinstance_obs(obs, klasse) == obs.klasse = klasse

\* A variant: a coordinate without such an observation gets the number 0
ManglendeSomNul == Har(0)

\* None, appended for a coordinate without such an observation
Manglende == Ingen

\* The inner loop "for obs in k.observationer: ... break ... else: ...": the
\* element appended for a coordinate with the observations obs.
RECURSIVE IndreLoekke(_, _, _)
IndreLoekke(obs, klasse, attr) ==
    IF obs = <<>> THEN Manglende
    ELSE IF isinstance_obs(Head(obs), klasse) THEN Har(Head(obs)[attr])
    ELSE IndreLoekke(Tail(obs), klasse, attr)

\* _obs_liste is entered: observationer = []
obs_liste_kald(ks, klasse, attr) ==
    /\ obs_pc = "hviler"
    /\ koordinater' = ks
    /\ observationsklasse' = klasse
    /\ attribut' = attr
    /\ observationer' = <<>>
    /\ kpos' = 1
    /\ obs_pc' = "loekke"

\* One round of "for k in self.koordinater"
obs_liste_runde ==
    /\ obs_pc = "loekke"
    /\ kpos <= Len(koordinater)
    /\ observationer' = Append(observationer,
                               IndreLoekke(koordinater[kpos], observationsklasse,
                                           attribut))
    /\ kpos' = kpos + 1
    /\ UNCHANGED <<koordinater, observationsklasse, attribut, obs_pc>>

\* "return observationer"
obs_liste_retur ==
    /\ obs_pc = "loekke"
    /\ kpos > Len(koordinater)
    /\ obs_pc' = "retur"
    /\ UNCHANGED <<koordinater, observationsklasse, attribut, observationer, kpos>>

InitObsListe == EnsHviler /\ BinHviler /\ RegHviler /\ HypHviler /\ ObsHviler

NextObsListe ==
    \/ /\ obs_pc = "hviler"
       /\ \E n \in 0..MaxKoordinater : \E ks \in Koordinatlister(n) :
             \E o \in Opslag : obs_liste_kald(ks, o[1], o[2])
       /\ UNCHANGED <<vars_ens, vars_bin, vars_reg, vars_hyp>>
    \/ obs_liste_runde /\ UNCHANGED <<vars_ens, vars_bin, vars_reg, vars_hyp>>
    \/ obs_liste_retur /\ UNCHANGED <<vars_ens, vars_bin, vars_reg, vars_hyp>>

SpecObsListe == InitObsListe /\ [][NextObsListe]_vars

(***************************************************************************)
(* One GNSSTidsserie: forbered_lineaer_regression, which runs binning and  *)
(* constructs linreg from what binning returns, and                        *)
(* beregn_lineaer_regression.  reg is the attribute linreg of the series;  *)
(* decimal years are counted from 2019.0.                                  *)
(***************************************************************************)
\* The x of the end-to-end example, [2019.0, 2019.01, 2019.5, 2020.0]
EksempelX == <<(<<0, 1>>), (<<1, 100>>), (<<1, 2>>), (<<1, 1>>)>>

\* The x handed over: the first n points of the example, and the example
\* without its second point (no two points within 14 days).
EksempelXlister ==
    {SubSeq(EksempelX, 1, n) : n \in 0..Len(EksempelX)}
        \cup {<<EksempelX[1], EksempelX[3], EksempelX[4]>>}

\* The y handed over with n values of x: n values, or one too many.
EksempelY(n) ==
    {SubSeq(RSeq(<<0, 2, 2, 0>>), 1, n), SubSeq(RSeq(<<1, 0, 3, 1, 0>>), 1, n + 1)}

\* The kwarg binsize, in days: the default, and more than half a year.
EksempelBinsizes == {StandardBinsize, 200}

\* A variant: the regression is built on the data as they were handed over
x_ubinned == x_ind

\* "x_binned, y_binned = self.binning(x, y, **kwargs)": what binning returns
x_binned == x
y_binned == y

\* forbered_lineaer_regression(x, y, grad=grad, binsize=bs) is called and
\* enters binning.
forbered_kald(xs, ys, grad, bs) ==
    /\ binning_kald(xs, ys, bs)
    /\ regkald' = [op |-> "forbered_lineaer_regression", udfald |-> "-",
                   x |-> xs, y |-> ys, grad |-> grad, binsize |-> bs]
    /\ UNCHANGED <<reg, svar>>

\* binning has returned: self.linreg = PolynomieRegression1D(x_binned,
\* y_binned, **kwargs); the locals of the call are gone.
forbered_opret ==
    /\ pc = "retur"
    /\ regkald.op = "forbered_lineaer_regression"
    /\ reg' = Har(PolynomieRegression1D(x_binned, y_binned, RInt(StandardVaegt),
                                        regkald.grad))
    /\ regkald' = [regkald EXCEPT !.udfald = "ok"]
    /\ pc' = "hviler" /\ x_ind' = <<>> /\ y_ind' = <<>> /\ binsize' = 0
    /\ x' = <<>> /\ y' = <<>> /\ vaegt' = <<>>
    /\ x_ny' = <<>> /\ y_ny' = <<>> /\ vaegt_ny' = <<>> /\ i' = 0
    /\ UNCHANGED svar

\* binning has raised ValueError: linreg is not assigned.
forbered_fejl ==
    /\ pc = "ValueError"
    /\ regkald.op = "forbered_lineaer_regression"
    /\ regkald' = [regkald EXCEPT !.udfald = "ValueError"]
    /\ pc' = "hviler" /\ x_ind' = <<>> /\ y_ind' = <<>> /\ binsize' = 0
    /\ x' = <<>> /\ y' = <<>> /\ vaegt' = <<>>
    /\ x_ny' = <<>> /\ y_ny' = <<>> /\ vaegt_ny' = <<>> /\ i' = 0
    /\ UNCHANGED <<reg, svar>>

\* beregn_lineaer_regression(): self.linreg.solve()
gnss_beregn_lineaer_regression ==
    /\ pc = "hviler"
    /\ IF reg = Ingen
       THEN /\ regkald' = [op |-> "beregn_lineaer_regression",
                           udfald |-> "AttributeError"]
            /\ UNCHANGED reg
       ELSE \E r \in {solve(Vaerdi(reg))} :
                /\ reg' = Har(r.reg)
                /\ regkald' = [op |-> "beregn_lineaer_regression",
                               udfald |-> r.udfald]
    /\ UNCHANGED <<vars_bin, svar>>

InitForbered == EnsHviler /\ BinHviler /\ RegHviler /\ HypHviler /\ ObsHviler

NextForbered ==
    \/ /\ pc = "hviler"
       /\ \E xs \in EksempelXlister : \E ys \in EksempelY(Len(xs)) :
             \E grad \in {0, StandardGrad} : \E bs \in EksempelBinsizes :
                forbered_kald(xs, ys, grad, bs)
       /\ UNCHANGED <<vars_ens, vars_hyp, vars_obs>>
    \/ ydre_loekke /\ UNCHANGED <<vars_ens, vars_reg, vars_hyp, vars_obs>>
    \/ indre_loekke /\ UNCHANGED <<vars_ens, vars_reg, vars_hyp, vars_obs>>
    \/ indre_slut /\ UNCHANGED <<vars_ens, vars_reg, vars_hyp, vars_obs>>
    \/ forbered_opret /\ UNCHANGED <<vars_ens, vars_hyp, vars_obs>>
    \/ forbered_fejl /\ UNCHANGED <<vars_ens, vars_hyp, vars_obs>>
    \/ gnss_beregn_lineaer_regression /\ UNCHANGED <<vars_ens, vars_hyp, vars_obs>>

SpecForbered == InitForbered /\ [][NextForbered]_vars

(***************************************************************************)
(* binning with the rounding of its float arithmetic.  numpy computes in   *)
(* binary floating point, every operation rounded to the nearest           *)
(* representable number, ties to the even significand; here the            *)
(* significand has Mantissebit bits (53 in numpy's float64) and the        *)
(* exponent is not limited.                                                *)
(***************************************************************************)
Mantissebit == 3

\* The power of two s with 2^(Mantissebit-1) <= a * s < 2^Mantissebit, a > 0.
RECURSIVE Skala(_, _)
Skala(a, s) ==
    IF RLt(RMul(a, s), RInt(2 ^ (Mantissebit - 1))) THEN Skala(a, RMul(s, <<2, 1>>))
    ELSE IF RLeq(RInt(2 ^ Mantissebit), RMul(a, s)) THEN Skala(a, RMul(s, <<1, 2>>))
    ELSE s

\* The float nearest to q, ties to even.
Afrund(q) ==
    IF q[1] = 0 THEN q
    ELSE Lad(Skala(RAbs(q), <<1, 1>>), LAMBDA s :
         Lad(RMul(RAbs(q), s), LAMBDA m :
         Lad(m[1] \div m[2], LAMBDA ned :
         Lad(RSub(m, RInt(ned)), LAMBDA rest :
            RDiv(RInt((IF q[1] < 0 THEN -1 ELSE 1) *
                      (IF RLt(<<1, 2>>, rest) \/ (rest = <<1, 2>> /\ ned % 2 = 1)
                       THEN ned + 1 ELSE ned)), s)))))

\* The floats handed over as x: 0 and the numbers m / 2^k.
Flydetal ==
    {<<0, 1>>} \cup {Rat(m, 2 ^ k) : m \in (2 ^ (Mantissebit - 1))..(2 ^ Mantissebit - 1),
                                     k \in 9..12}

FlydStigende(n) ==
    {v \in [1..n -> Flydetal] : \A k \in 1..(n - 1) : RLeq(v[k], v[k + 1])}

\* binsize / 365.25
flyd_binsize_i_aar(bs) == Afrund(RDiv(RInt(bs), <<1461, 4>>))

\* np.diff(x) <= binsize_i_aar somewhere
FlydNaboerForTaet(xs, B) ==
    \E k \in 1..(Len(xs) - 1) : RLeq(Afrund(RSub(xs[k + 1], xs[k])), B)

\* np.where(bin_start <= x and x <= bin_slut) for bin_slut = bin_start + B
FlydBin(xs, bin_start, B) ==
    {k \in 1..Len(xs) :
        RLeq(bin_start, xs[k]) /\ RLeq(xs[k], Afrund(RAdd(bin_start, B)))}

\* sum(v[bin] * w[bin]), the indices taken in ascending order
RECURSIVE FlydSumProdukt(_, _, _)
FlydSumProdukt(v, w, S) ==
    IF S = {} THEN RInt(0)
    ELSE LET m == SetMax(S)
         IN  Afrund(RAdd(FlydSumProdukt(v, w, S \ {m}),
                         Afrund(RMul(v[m], RInt(w[m])))))

\* sum(v[bin] * vaegt[bin]) / sum(vaegt[bin]); the weights are small whole
\* numbers, which are floats and add up without rounding
FlydVaegtetMiddel(v, w, S) ==
    Afrund(RDiv(FlydSumProdukt(v, w, S), RInt(SumVaegt(w, S))))

\* "while np.any(xdiff <= binsize_i_aar)"
flyd_ydre_loekke ==
    /\ pc = "ydre"
    /\ IF FlydNaboerForTaet(x, flyd_binsize_i_aar(binsize))
       THEN /\ x_ny' = <<>> /\ y_ny' = <<>> /\ vaegt_ny' = <<>> /\ i' = 0
            /\ pc' = "indre"
       ELSE /\ pc' = "retur"
            /\ UNCHANGED <<x_ny, y_ny, vaegt_ny, i>>
    /\ UNCHANGED <<x_ind, y_ind, binsize, x, y, vaegt>>

\* One pass of "while i < len(x)"
flyd_indre_loekke ==
    /\ pc = "indre"
    /\ i < Len(x)
    /\ \E b \in {FlydBin(x, x[i + 1], flyd_binsize_i_aar(binsize))} :
          /\ x_ny' = Append(x_ny, FlydVaegtetMiddel(x, vaegt, b))
          /\ y_ny' = Append(y_ny, FlydVaegtetMiddel(y, vaegt, b))
          /\ vaegt_ny' = Append(vaegt_ny, SumVaegt(vaegt, b))
          /\ i' = (SetMax(b) - 1) + 1
    /\ UNCHANGED <<pc, x_ind, y_ind, binsize, x, y, vaegt>>

InitFlydBinning == EnsHviler /\ BinHviler /\ RegHviler /\ HypHviler /\ ObsHviler

NextFlydBinning ==
    \/ /\ pc = "hviler"
       /\ \E n \in 0..MaxLen : \E xs \in FlydStigende(n) :
             \E bs \in {3, StandardBinsize} :
                binning_kald(np_array(xs), RSeq(np_ones(xs)), bs)
       /\ UNCHANGED <<vars_ens, vars_reg, vars_hyp, vars_obs>>
    \/ flyd_ydre_loekke /\ UNCHANGED <<vars_ens, vars_reg, vars_hyp, vars_obs>>
    \/ flyd_indre_loekke /\ UNCHANGED <<vars_ens, vars_reg, vars_hyp, vars_obs>>
    \/ indre_slut /\ UNCHANGED <<vars_ens, vars_reg, vars_hyp, vars_obs>>

SpecFlydBinning == InitFlydBinning /\ [][NextFlydBinning]_vars

(***************************************************************************)
(* Properties of the ensemble (specification Spec).                        *)
(***************************************************************************)
\* The names in the ensemble and the series stored under each of them.
Navne == {tidsserier[k][1] : k \in 1..Len(tidsserier)}
GemtUnder(n) == tidsserier[SetMax({k \in 1..Len(tidsserier) : tidsserier[k][1] = n})][2]
Gemte == {GemtUnder(n) : n \in Navne}
Reg(s) == Vaerdi(linreg[s])

RECURSIVE SumSSR(_)
SumSSR(S) ==
    IF S = {} THEN <<0, 1>>
    ELSE LET s == CHOOSE e \in S : TRUE
         IN  RAdd(Vaerdi(Reg(s).SSR), SumSSR(S \ {s}))

RECURSIVE SumDof(_)
SumDof(S) ==
    IF S = {} THEN 0
    ELSE LET s == CHOOSE e \in S : TRUE
         IN  (Len(Reg(s).x) - (Reg(s).grad + 1)) + SumDof(S \ {s})

EfterSamletVarians == sidste.op = "beregn_samlet_varians" /\ sidste.udfald = "ok"

\* C1: after a successful beregn_samlet_varians the ensemble's var_samlet is
\* (sum of SSR) / (sum of dof) over exactly the series stored in the ensemble,
\* one per name: var_samlet * sum(dof) = sum(SSR) with sum(dof) > 0.
C1_SamletVarians ==
    EfterSamletVarians =>
        /\ var_samlet # Ingen
        /\ SumDof(Gemte) > 0
        /\ RMul(Vaerdi(var_samlet), <<SumDof(Gemte), 1>>) = SumSSR(Gemte)

\* The example: SSR = [4, 6] and dof = [2, 3] give 2.0, while a series outside
\* the ensemble (s3) has a solved regression of its own.
C1_Eksempel ==
    /\ EfterSamletVarians
    /\ Gemte = {"s1", "s2"}
    /\ Reg("s1").SSR = {<<4, 1>>} /\ dof(Reg("s1")) = 2
    /\ Reg("s2").SSR = {<<6, 1>>} /\ dof(Reg("s2")) = 3
    /\ linreg["s3"] # Ingen /\ Reg("s3").SSR # Ingen
    /\ var_samlet = {<<2, 1>>}

\* C2: after a successful beregn_samlet_varians every stored series'
\* linreg.var_samlet equals the ensemble's var_samlet.
C2_AlleFaarSamletVarians ==
    EfterSamletVarians =>
        /\ var_samlet # Ingen
        /\ \A k \in 1..Len(tidsserier) :
              /\ linreg[tidsserier[k][2]] # Ingen
              /\ Reg(tidsserier[k][2]).var_samlet = var_samlet

\* Two series are stored, and the pooled value replaced a var0 that differs
\* from it in both.
C2_Overskrevet ==
    /\ EfterSamletVarians
    /\ Len(tidsserier) = 2
    /\ \A k \in 1..Len(tidsserier) :
          /\ Reg(tidsserier[k][2]).var0 # var_samlet
          /\ Reg(tidsserier[k][2]).var_samlet = var_samlet

\* C3 as claimed: once assigned, the pooled variance of a regression stays
\* until beregn_samlet_varians runs again, whatever else is called.
C3_SomPaastaaet ==
    [][\A s \in SerieId :
          (tildelt[s] /\ tildelt'[s] /\ sidste'.op # "beregn_samlet_varians")
              => Vaerdi(linreg'[s]).var_samlet = Reg(s).var_samlet]_vars

\* C3 as amended: once assigned, the pooled variance of a regression stays
\* under every call except beregn_samlet_varians and solve() on that
\* regression; solve() on it succeeds and sets var_samlet back to var0.
C3_SamletVariansBliver ==
    [][\A s \in SerieId :
          (tildelt[s] /\ tildelt'[s] /\ sidste'.op # "beregn_samlet_varians")
              => IF sidste'.op = "beregn_lineaer_regression" /\ sidste'.ts = s
                 THEN /\ sidste'.udfald = "ok"
                      /\ Vaerdi(linreg'[s]).var_samlet = Vaerdi(linreg'[s]).var0
                 ELSE Vaerdi(linreg'[s]).var_samlet = Reg(s).var_samlet]_vars

\* A stored series was solved again after the pooling: its var_samlet is its
\* var0 again and no longer the ensemble's.
C3_LoestIgen ==
    /\ sidste.op = "beregn_lineaer_regression" /\ sidste.udfald = "ok"
    /\ sidste.ts \in Gemte
    /\ tildelt[sidste.ts]
    /\ Reg(sidste.ts).var_samlet = Reg(sidste.ts).var0
    /\ var_samlet # Ingen
    /\ Reg(sidste.ts).var_samlet # var_samlet

\* navn has the form a_g_c, no "_" in a, g or c.
HarGruppe(navn, g) ==
    \E p, q \in 1..Len(navn) :
        /\ p < q
        /\ \A k \in 1..Len(navn) : (navn[k] = "_") <=> (k \in {p, q})
        /\ SubSeq(navn, p + 1, q - 1) = g

\* The four conditions of admission.
Opfylder(s) ==
    /\ \/ Serier[s].klasse = ensemble.tidsserieklasse
       \/ ensemble.tidsserieklasse = "Tidsserie"
    /\ Len(Serier[s].decimalaar) >= ensemble.min_antal_punkter
    /\ HarGruppe(Serier[s].navn, ensemble.tidsseriegruppe)
    /\ Serier[s].kortnavn = ensemble.referenceramme

\* C4: every stored series meets the four conditions of admission, is stored
\* under its own navn, and no navn is stored twice: the series admitted last
\* is the one stored under its navn.
C4_KunGodkendteSerier ==
    /\ \A k \in 1..Len(tidsserier) :
          /\ Opfylder(tidsserier[k][2])
          /\ tidsserier[k][1] = Serier[tidsserier[k][2]].navn
    /\ \A j, k \in 1..Len(tidsserier) :
          tidsserier[j][1] = tidsserier[k][1] => j = k
    /\ (sidste.op = "tilfoej_tidsserie" /\ sidste.udfald = "tilfoejet")
          => /\ Serier[sidste.ts].navn \in Navne
             /\ GemtUnder(Serier[sidste.ts].navn) = sidste.ts

\* s1 was stored (it took part in a pooling) and s3, of the same navn, has
\* taken its place beside s2.
C4_Erstattet ==
    /\ tildelt["s1"]
    /\ sidste = Kald("tilfoej_tidsserie", "s3", "tilfoejet")
    /\ Len(tidsserier) = 2
    /\ Gemte = {"s3", "s2"}

\* C5 as claimed: tilfoej_tidsserie never raises past its caller, and a
\* candidate that fails a condition of admission is reported and leaves the
\* member mapping as it was.
C5_SomPaastaaet ==
    [][sidste'.op = "tilfoej_tidsserie" =>
          /\ sidste'.udfald \in {"tilfoejet", "afvist"}
          /\ ~Opfylder(sidste'.ts) =>
                (sidste'.udfald = "afvist" /\ tidsserier' = tidsserier)]_vars

\* C6: beregn_samlet_varians on an ensemble without series fails with
\* ValueError, leaves the ensemble without var_samlet and touches no regression.
C6_TomtEnsemble ==
    [][(sidste'.op = "beregn_samlet_varians" /\ tidsserier = <<>>) =>
          /\ sidste'.udfald = "ValueError"
          /\ var_samlet = Ingen /\ var_samlet' = Ingen
          /\ linreg' = linreg
          /\ tidsserier' = <<>>]_vars

\* The call failed on an ensemble that rejects every GNSS series offered,
\* while a solved regression exists.
C6_AfvistOgTomt ==
    /\ sidste.op = "beregn_samlet_varians" /\ sidste.udfald = "ValueError"
    /\ tidsserier = <<>>
    /\ ensemble.tidsserieklasse = "HoejdeTidsserie"
    /\ var_samlet = Ingen
    /\ linreg["s1"] # Ingen /\ Reg("s1").SSR # Ingen

(***************************************************************************)
(* Properties of binning (specification SpecBinning).                      *)
(***************************************************************************)
\* The bin width in years, binsize / 365.25, written out.
Bredde == Rat(4 * binsize, 1461)

\* Every gap between neighbours of the list is wider than the bin.
GabOverBredde(v) ==
    \A k \in 1..(Len(v) - 1) : RLt(Bredde, RSub(v[k + 1], v[k]))

\* C7: what binning returns is no longer than its input, x and y of one
\* length, and every gap between consecutive returned x is strictly greater
\* than the bin width binsize / 365.25.
C7_BinningFikspunkt ==
    pc = "retur" =>
        /\ Len(x) <= Len(x_ind)
        /\ Len(y) = Len(x)
        /\ GabOverBredde(x)

\* Three points came in and two went out: two of them were merged into a
\* point of weight 2, and the gap that is left is wider than the bin.
C7_ToSlaaetSammen ==
    /\ pc = "retur"
    /\ binsize >= 1
    /\ Len(x_ind) = 3 /\ Len(x) = 2
    /\ \E k \in 1..2 : vaegt[k] = 2
    /\ x[1] # x_ind[1] \/ x[2] # x_ind[3]

\* C8: when every gap of the input is wider than the bin, binning returns
\* x and y as they came in, element for element; and from the call on the
\* caller's lists are never changed.
C8_UaendretUdenNaboer ==
    [][/\ (pc' = "retur" /\ GabOverBredde(x_ind)')
            => (x' = x_ind' /\ y' = y_ind')
       /\ pc # "hviler" => (x_ind' = x_ind /\ y_ind' = y_ind)]_vars

\* Three points further apart than a bin of at least a day came back as
\* they were.
C8_TrePunkterUaendret ==
    /\ pc = "retur"
    /\ binsize >= 1
    /\ Len(x_ind) = 3
    /\ GabOverBredde(x_ind)
    /\ x = x_ind /\ y = y_ind
    /\ y_ind[1] # y_ind[2]

(***************************************************************************)
(* Properties of solve() (specification SpecRegression).                   *)
(***************************************************************************)
\* The regression before the call, and the number of different x in it.
Foer == Vaerdi(reg)
ForskelligeX(r) == Cardinality({r.x[k] : k \in 1..Len(r.x)})
Mislykket(u) == u \in {"ValueError_dof", "ValueError_rang"}

\* C9 as claimed: dof = N - (grad + 1); solve() fails with ValueError exactly
\* when N <= grad + 1, and a failing solve() has assigned nothing.
C9_SomPaastaaet ==
    [][regkald'.op = "solve" =>
          /\ dof(Foer) = Len(Foer.x) - (Foer.grad + 1)
          /\ Mislykket(regkald'.udfald) <=> Len(Foer.x) <= Foer.grad + 1
          /\ Mislykket(regkald'.udfald) => reg' = reg]_vars

\* C9 as amended: dof = N - (grad + 1); when N <= grad + 1 solve() fails
\* with the ValueError for too few points and has assigned nothing; when
\* N > grad + 1 it fails, with the ValueError for too low a rank and after
\* assigning beta, exactly when x holds fewer than grad + 1 different values.
C9_ForFaaPunkter ==
    [][regkald'.op = "solve" =>
          /\ dof(Foer) = Len(Foer.x) - (Foer.grad + 1)
          /\ Len(Foer.x) <= Foer.grad + 1
                => (regkald'.udfald = "ValueError_dof" /\ reg' = reg)
          /\ Len(Foer.x) > Foer.grad + 1
                => /\ regkald'.udfald \in {"ok", "ValueError_rang"}
                   /\ regkald'.udfald = "ValueError_rang"
                         <=> ForskelligeX(Foer) < Foer.grad + 1
                   /\ Vaerdi(reg').beta # Ingen]_vars

\* solve() failed for a regression of degree 1 on exactly two points, and
\* nothing is assigned.
C9_ToPunkterGradEn ==
    /\ regkald = [op |-> "solve", udfald |-> "ValueError_dof"]
    /\ Foer.grad = 1 /\ Len(Foer.x) = 2
    /\ Foer.x[1] # Foer.x[2]
    /\ Foer.beta = Ingen /\ Foer.residualer = Ingen /\ Foer.SSR = Ingen
    /\ Foer.var0 = Ingen /\ Foer.var_samlet = Ingen

(***************************************************************************)
(* Properties of the hypothesis tests (specification SpecHypotese).        *)
(***************************************************************************)
Testen == Vaerdi(test)
Positiv(a) == a[1] > 0
\* |H0| / std_est
Forhold(t) == RDiv(RAbs(t.H0), t.std_est)

\* C10: for a test with positive std_est, reading score gives |H0| / std_est
\* and reading H0accepteret gives TRUE exactly when that is strictly below
\* kritiskvaerdi, so FALSE when the two are equal; a read changes no field
\* of the test.
C10_ScoreOgAccept ==
    [][test # Ingen =>
          /\ test' = test
          /\ aflaest' # Ingen
          /\ Positiv(Testen.std_est) =>
                /\ Vaerdi(aflaest').egenskab = "score"
                      => Vaerdi(aflaest').vaerdi = Forhold(Testen)
                /\ Vaerdi(aflaest').egenskab = "H0accepteret"
                      => /\ Vaerdi(aflaest').vaerdi
                               <=> RLt(Forhold(Testen), Testen.kritiskvaerdi)
                         /\ Forhold(Testen) = Testen.kritiskvaerdi
                               => Vaerdi(aflaest').vaerdi = FALSE]_vars

\* H0accepteret was read as FALSE from a test whose score, for a negative H0
\* and a positive std_est, is exactly its kritiskvaerdi.
C10_PaaGraensen ==
    /\ test # Ingen /\ aflaest # Ingen
    /\ Positiv(Testen.std_est)
    /\ Testen.H0[1] < 0
    /\ Forhold(Testen) = Testen.kritiskvaerdi
    /\ Vaerdi(aflaest) = [egenskab |-> "H0accepteret", vaerdi |-> FALSE]

(***************************************************************************)
(* Properties of the reads of a fitted regression (specification           *)
(* SpecAflaesning).                                                        *)
(***************************************************************************)
\* The regression the last call read, what the call returned, and the
\* arguments it was given.
Aflaest == Vaerdi(reg)
Returneret == Vaerdi(svar)
LaesningLykkedes(op) == reg # Ingen /\ regkald.op = op /\ regkald.udfald = "ok"

\* The value returned is built from the variance var and the quantile
\* fraktil (for the slope test: the test of class klasse with that critical
\* value and the degrees of freedom frihed).
ByggetAf(var, fraktil, klasse, frihed) ==
    \/ /\ LaesningLykkedes("beregn_konfidensinterval")
       /\ Returneret.fraktil = fraktil
       /\ Returneret.delta =
            Liste(LAMBDA j : Kvadratrod(RMul(var, invATA(Aflaest).vaerdi[j][j])),
                  ddof(Aflaest))
    \/ /\ LaesningLykkedes("beregn_konfidensbaand")
       /\ Returneret.fraktil = fraktil
       /\ Returneret.delta =
            Liste(LAMBDA p : Kvadratrod(RMul(var,
                      Praediktionsvaegt(Aflaest, invATA(Aflaest).vaerdi,
                                        regkald.x_praed)[p])),
                  Len(regkald.x_praed))
    \/ /\ LaesningLykkedes("beregn_hypotesetest_haeldning")
       /\ Returneret.klasse = klasse
       /\ Returneret.kritiskvaerdi = fraktil
       /\ Returneret.dof = frihed
       /\ Returneret.std_est =
            Kvadratrod(RMul(var, invATA(Aflaest).vaerdi[2][2]))

\* var_samlet together with the standard-normal quantile (Ztest)
SamletOgNormal ==
    /\ Aflaest.var_samlet # Ingen
    /\ ByggetAf(Vaerdi(Aflaest.var_samlet),
                beregn_fraktil_for_normalfordeling(Niveau(regkald.alpha)),
                "Ztest", Ingen)

\* var0 together with the Student-t quantile for dof (Ttest)
EgenOgStudent ==
    /\ Aflaest.var0 # Ingen
    /\ ByggetAf(Vaerdi(Aflaest.var0),
                beregn_fraktil_for_t_fordeling(Niveau(regkald.alpha), dof(Aflaest)),
                "Ttest", Har(dof(Aflaest)))

\* C11: whatever beregn_konfidensinterval, beregn_konfidensbaand and
\* beregn_hypotesetest_haeldning return is built either from var_samlet and
\* the standard-normal quantile at 1 - alpha/2 (a Ztest for the slope test)
\* or from var0 and the Student-t quantile at 1 - alpha/2 with dof degrees of
\* freedom (a Ttest), never from a mix of the two: the first with
\* er_samlet=True, the second with er_samlet=False.
C11_VariansOgFordeling ==
    \A op \in {"beregn_konfidensinterval", "beregn_konfidensbaand",
               "beregn_hypotesetest_haeldning"} :
        LaesningLykkedes(op) =>
            /\ regkald.er_samlet = "True" => SamletOgNormal
            /\ regkald.er_samlet = "False" => EgenOgStudent
            /\ SamletOgNormal \/ EgenOgStudent

\* A slope test with er_samlet=True on a regression whose pooled variance
\* differs from its own var0, and a confidence interval with er_samlet=False
\* on such a regression.
C11_SamletForskelligFraEgen ==
    /\ \/ LaesningLykkedes("beregn_hypotesetest_haeldning")
            /\ regkald.er_samlet = "True"
       \/ LaesningLykkedes("beregn_konfidensinterval")
            /\ regkald.er_samlet = "False"
    /\ Aflaest.var_samlet # Aflaest.var0
    /\ dof(Aflaest) = 2

(***************************************************************************)
(* Properties of _obs_liste (specification SpecObsListe).                  *)
(***************************************************************************)
\* The positions in coordinate k's observations of the requested class.
AfKlassen(k) ==
    {j \in 1..Len(koordinater[k]) :
        koordinater[k][j].klasse = observationsklasse}

\* Element k of the list is as described: the requested attribute of the
\* first observation of the requested class at coordinate k, and None when
\* the coordinate has none.
ElementSomBeskrevet(k) ==
    IF AfKlassen(k) = {} THEN observationer[k] = Ingen /\ observationer[k] # Har(0)
    ELSE \E j \in AfKlassen(k) :
            /\ \A m \in AfKlassen(k) : j <= m
            /\ observationer[k] = Har(koordinater[k][j][attribut])

\* C12: the list _obs_liste returns has exactly the length of the coordinate
\* sequence, and its element k is the requested attribute of the first
\* observation of the requested class attached to coordinate k, or None
\* (never 0) when the coordinate has none; while the list is built every
\* element already stands at the position of its coordinate.
C12_ObsListe ==
    /\ obs_pc = "retur" => Len(observationer) = Len(koordinater)
    /\ obs_pc \in {"loekke", "retur"} =>
          /\ Len(observationer) = kpos - 1
          /\ \A k \in 1..Len(observationer) : ElementSomBeskrevet(k)

\* A list returned for two coordinates that starts with None: one coordinate
\* has no observation of the class and the other has two of them.
C12_NulOgManglende ==
    /\ obs_pc = "retur"
    /\ Len(koordinater) = 2
    /\ observationer[1] = Ingen
    /\ \E k \in 1..2 : AfKlassen(k) = {}
    /\ \E k \in 1..2 : Cardinality(AfKlassen(k)) = 2

(***************************************************************************)
(* Properties of a GNSS series' regression (specification SpecForbered).   *)
(***************************************************************************)
\* The series' linreg, and what binning gives for the data handed over in
\* the call of forbered_lineaer_regression that has just ended.
Linreg == Vaerdi(reg)
ForberedtNu == regkald.op = "forbered_lineaer_regression" /\ regkald.udfald = "ok"
BinnetX == Binning(regkald.x, regkald.y, regkald.binsize)[1]
EksempletForberedt ==
    /\ ForberedtNu
    /\ regkald.x = EksempelX /\ regkald.binsize = 14 /\ regkald.grad = 1

\* C13: the regression forbered_lineaer_regression assigns to a GNSS series
\* is built on the binned data: its N is the length of what binning returns
\* for the x and y handed over and its dof is that length minus (grad + 1).
\* With x = [2019.0, 2019.01, 2019.5, 2020.0] and binsize = 14 the first two
\* points are one bin and the regression has 3 points; with grad = 1 its dof
\* is 1 and the beregn_lineaer_regression that follows succeeds.
C13_RegressionPaaBinnedeData ==
    /\ [](ForberedtNu =>
            /\ Linreg.x = BinnetX
            /\ N(Linreg) = Len(BinnetX)
            /\ dof(Linreg) = Len(BinnetX) - (regkald.grad + 1))
    /\ [](EksempletForberedt =>
            /\ Linreg.x = <<(<<1, 200>>), (<<1, 2>>), (<<1, 1>>)>>
            /\ N(Linreg) = 3
            /\ dof(Linreg) = 1)
    /\ [][(EksempletForberedt /\ regkald'.op = "beregn_lineaer_regression") =>
            /\ regkald'.udfald = "ok"
            /\ Vaerdi(reg').beta # Ingen /\ Vaerdi(reg').SSR # Ingen
            /\ dof(Vaerdi(reg')) = 1]_vars

\* The example, prepared with grad = 1 and solved: three points, the first
\* of them the mean of 2019.0 and 2019.01.
C13_EksempletLoest ==
    /\ pc = "hviler" /\ reg # Ingen
    /\ regkald = [op |-> "beregn_lineaer_regression", udfald |-> "ok"]
    /\ Linreg.x = <<(<<1, 200>>), (<<1, 2>>), (<<1, 1>>)>>
    /\ Linreg.grad = 1 /\ dof(Linreg) = 1 /\ N(Linreg) = 3

(***************************************************************************)
(* Properties of binning's loops (specification SpecFlydBinning).         *)
(***************************************************************************)
\* A pass of the outer loop has ended: the inner loop is through x.
PasSlut == pc = "indre" /\ i >= Len(x)

\* C14: binning terminates: every pass the outer loop enters ends with
\* strictly fewer points than it started with, and every round of the inner
\* loop moves i forward by at least one.
C14_SomPaastaaet ==
    /\ PasSlut => Len(x_ny) < Len(x)
    /\ pc = "indre" => i >= Len(x_ny)

(***************************************************************************)
(* Properties of binning's passes (specification SpecBinning).             *)
(***************************************************************************)
\* The block of original indices behind the current point k, when the blocks
\* lie one after the other with the sizes the weights give.
BlokFoer(k) == SumVaegt(vaegt, 1..(k - 1))
Blok(k) == (BlokFoer(k) + 1)..(BlokFoer(k) + vaegt[k])

\* The arithmetic mean of the original values v at the indices S.
Gennemsnit(v, S) ==
    RDiv(RSum(Liste(LAMBDA n : IF n \in S THEN v[n] ELSE <<0, 1>>, Len(v))),
         RInt(Cardinality(S)))

\* C15: before and after every pass of binning the current points stand for
\* consecutive blocks of the original indices that together hold every
\* original index once: each weight is the size of its block (the weights
\* sum to the length of the input) and each x and y is the arithmetic mean of
\* the original x and y of its block, also when a pass has merged points that
\* were merged before.
C15_BlokkeOgGennemsnit ==
    pc \in {"ydre", "retur"} =>
        /\ Len(x) = Len(vaegt) /\ Len(y) = Len(vaegt)
        /\ \A k \in 1..Len(vaegt) : vaegt[k] >= 1
        /\ SumVaegt(vaegt, 1..Len(vaegt)) = Len(x_ind)
        /\ \A k \in 1..Len(vaegt) :
              /\ x[k] = Gennemsnit(x_ind, Blok(k))
              /\ y[k] = Gennemsnit(y_ind, Blok(k))

\* Days 0, 2 and 4 with a bin of 3 days: the first pass merges days 0 and 2,
\* the second merges that point with day 4.
C15_ToGangeSlaaetSammen ==
    /\ pc = "retur"
    /\ x_ind = <<Aar(0), Aar(2), Aar(4)>> /\ binsize = 3
    /\ y_ind = <<(<<0, 1>>), (<<1, 1>>), (<<1, 1>>)>>
    /\ vaegt = <<3>>
    /\ x = <<Aar(2)>> /\ y = <<(<<2, 3>>)>>

(***************************************************************************)
(* Properties of a failing solve() (specification SpecRegression).         *)
(***************************************************************************)
\* The fitted state of a regression.
Tilstand(r) == <<r.beta, r.residualer, r.SSR, r.var0, r.var_samlet>>
AldrigLoest(r) == r.SSR = Ingen /\ r.var0 = Ingen /\ r.var_samlet = Ingen

\* C16: a solve() that raises, for too few points or for too low a rank,
\* leaves beta, residualer, SSR, var0 and var_samlet exactly as they were; a
\* regression that was never solved is still without coefficients and has
\* var0 = var_samlet = None afterwards.
C16_SomPaastaaet ==
    [][(regkald'.op = "solve" /\ Mislykket(regkald'.udfald)) =>
          /\ Tilstand(Vaerdi(reg')) = Tilstand(Vaerdi(reg))
          /\ (AldrigLoest(Vaerdi(reg)) /\ Vaerdi(reg).beta = Ingen) =>
                (AldrigLoest(Vaerdi(reg')) /\ Vaerdi(reg').beta = Ingen)]_vars

==============================================================================
